---- MODULE Spec2Model ----
(***************************************************************************)
(* Analog media device discovery (analog.py): raw enumeration parsing,     *)
(* fuzzy identity resolution, fingerprint scan, composite merge,           *)
(* reconciliation with configuration and blacklist, the JSON summary, and  *)
(* the run()/stop() lifecycle of an AnalogAudio binding.                   *)
(*                                                                         *)
(* Strings are TLA+ strings; Python's str operations are computed on them  *)
(* character by character.  Scores are integers: the library scorers give  *)
(* 1.0 as 10000, the scores of the resolvers give 1.0 as 100000.           *)
(***************************************************************************)
EXTENDS Integers, Sequences, FiniteSets, TLC

VARIABLES
    arecord,        \* outcome of `arecord -l`: [ok, lines]
    v4l2,           \* outcome of `v4l2-ctl --list-devices`: [ok, lines]
    config,         \* read_mycroft_config(): [ok, analog_devices, analog_blacklist]
    fuzz,           \* what the partial token-sort ratio gives a pair the model does not decide
    op,             \* the operation last invoked ("none" before any)
    out,            \* what that operation returned or raised
    stream,         \* AnalogAudio.stream: a process id, 0 for None
    audio_player,   \* AnalogAudio.audio_player: a process id, 0 for None
    running,        \* AnalogAudio.running
    procs,          \* the subprocesses started: process id -> [cmd, alive]
    runPc,          \* position of the thread executing run()
    spawned,        \* the player run() has started and not yet assigned; 0 for none
    stopPc,         \* position of the caller inside stop()
    stopsLeft,      \* stop() calls the caller may still make
    stopsDone,      \* stop() calls completed
    lastStop,       \* where run() was when the latest stop() call began
    raised,         \* the threads an exception escaped from
    executables     \* the programs find_executable finds

vars == <<arecord, v4l2, config, fuzz, op, out, stream,
          audio_player, running, procs, runPc, spawned, stopPc, stopsLeft,
          stopsDone, lastStop, raised, executables>>

None == "<None>"

\* v bound to a name: F(v), with v evaluated once
Bind(v, F(_)) == CHOOSE r \in {F(x) : x \in {v}} : TRUE

\* outcomes of a call: a value, or an exception that escapes it
Ok(v) == [ok |-> TRUE, val |-> v]
Raise(e) == [ok |-> FALSE, exc |-> e]

(***************************************************************************)
(* Python str operations                                                   *)
(***************************************************************************)

\* s.startswith(p)
StartsWith(s, p) ==
    Len(p) <= Len(s) /\ SubSeq(s, 1, Len(p)) = p

\* s.endswith(p)
EndsWith(s, p) ==
    Len(p) <= Len(s) /\ SubSeq(s, Len(s) - Len(p) + 1, Len(s)) = p

\* sub occurs in s at position i
OccursAt(s, sub, i) == SubSeq(s, i, i + Len(sub) - 1) = sub

\* sub in s
Contains(sub, s) == \E i \in 1..(Len(s) - Len(sub) + 1) : OccursAt(s, sub, i)

\* index of the first occurrence of sub in s, 0 when there is none
IndexOf(s, sub) ==
    IF Contains(sub, s)
    THEN CHOOSE i \in 1..(Len(s) - Len(sub) + 1) :
            OccursAt(s, sub, i) /\ \A j \in 1..(i - 1) : ~OccursAt(s, sub, j)
    ELSE 0

RECURSIVE Split(_, _)
\* s.split(sep)
Split(s, sep) ==
    Bind(IndexOf(s, sep), LAMBDA i :
        IF i = 0 THEN <<s>>
        ELSE <<SubSeq(s, 1, i - 1)>> \o Split(SubSeq(s, i + Len(sep), Len(s)), sep))

RECURSIVE Replace(_, _, _)
\* s.replace(old, new)
Replace(s, old, new) ==
    Bind(IndexOf(s, old), LAMBDA i :
        IF i = 0 THEN s
        ELSE SubSeq(s, 1, i - 1) \o new
                 \o Replace(SubSeq(s, i + Len(old), Len(s)), old, new))

IsSpace(c) == c \in {" ", "\t"}

RECURSIVE Strip(_)
\* s.strip()
Strip(s) ==
    IF s = "" THEN s
    ELSE IF IsSpace(SubSeq(s, 1, 1)) THEN Strip(SubSeq(s, 2, Len(s)))
    ELSE IF IsSpace(SubSeq(s, Len(s), Len(s))) THEN Strip(SubSeq(s, 1, Len(s) - 1))
    ELSE s

Upper == <<"A", "B", "C", "D", "E", "F", "G", "H", "I", "J", "K", "L", "M",
           "N", "O", "P", "Q", "R", "S", "T", "U", "V", "W", "X", "Y", "Z">>
Lowercase == <<"a", "b", "c", "d", "e", "f", "g", "h", "i", "j", "k", "l", "m",
               "n", "o", "p", "q", "r", "s", "t", "u", "v", "w", "x", "y", "z">>
Digits == <<"0", "1", "2", "3", "4", "5", "6", "7", "8", "9">>

LowerChar(c) ==
    IF \E i \in 1..Len(Upper) : Upper[i] = c
    THEN Lowercase[CHOOSE i \in 1..Len(Upper) : Upper[i] = c]
    ELSE c

RECURSIVE Lower(_)
\* s.lower()
Lower(s) ==
    IF s = "" THEN s ELSE LowerChar(SubSeq(s, 1, 1)) \o Lower(SubSeq(s, 2, Len(s)))

\* the value of a decimal digit, -1 for any other character
DigitVal(c) ==
    IF \E i \in 1..Len(Digits) : Digits[i] = c
    THEN (CHOOSE i \in 1..Len(Digits) : Digits[i] = c) - 1
    ELSE -1

RECURSIVE ParseInt(_)
\* int(s) for a string of decimal digits; -1 stands for ValueError
ParseInt(s) ==
    IF s = "" THEN -1
    ELSE Bind(DigitVal(SubSeq(s, Len(s), Len(s))), LAMBDA d :
        IF d < 0 THEN -1
        ELSE IF Len(s) = 1 THEN d
        ELSE Bind(ParseInt(SubSeq(s, 1, Len(s) - 1)), LAMBDA h :
                 IF h < 0 THEN -1 ELSE 10 * h + d))

(***************************************************************************)
(* Ordered mappings (Python dict): <<[key, val]>> in insertion order       *)
(***************************************************************************)

DictKeys(d) == {d[i].key : i \in 1..Len(d)}

DictGet(d, k) == d[CHOOSE i \in 1..Len(d) : d[i].key = k].val

\* d[k] = v: an existing key keeps its position and takes the new value
DictSet(d, k, v) ==
    IF k \in DictKeys(d)
    THEN [i \in 1..Len(d) |-> IF d[i].key = k THEN [key |-> k, val |-> v] ELSE d[i]]
    ELSE Append(d, [key |-> k, val |-> v])

\* d.values()
DictValues(d) == [i \in 1..Len(d) |-> d[i].val]

(***************************************************************************)
(* Raw enumeration                                                         *)
(***************************************************************************)

\* one "card ..." line of `arecord -l`; a line of another shape is a ValueError
ParseCardLine(line) ==
    Bind(Split(line, ": "), LAMBDA parts :
        IF Len(parts) # 3 THEN Raise("ValueError")
        ELSE Bind(Split(parts[2], ", device "), LAMBDA np :
            IF Len(np) # 2 THEN Raise("ValueError")
            ELSE Bind(<<ParseInt(Replace(parts[1], "card ", "")), ParseInt(np[2])>>,
                      LAMBDA num :
                IF num[1] < 0 \/ num[2] < 0 THEN Raise("ValueError")
                ELSE Ok([card_num |-> num[1], device_num |-> num[2],
                         card_name |-> np[1], card_type |-> parts[3]]))))

RECURSIVE ParseCards(_)
\* the loop of AnalogAudio.list_devices over the lines of `arecord -l`
ParseCards(lines) ==
    IF lines = <<>> THEN Ok(<<>>)
    ELSE Bind(Strip(Head(lines)), LAMBDA line :
        IF ~StartsWith(line, "card ") THEN ParseCards(Tail(lines))
        ELSE Bind(ParseCardLine(line), LAMBDA card :
            IF ~card.ok THEN card
            ELSE Bind(ParseCards(Tail(lines)), LAMBDA rest :
                IF ~rest.ok THEN rest ELSE Ok(<<card.val>> \o rest.val))))

\* AnalogAudio.list_devices(): check_output raises when arecord is missing or fails
AnalogAudio_list_devices(cmd) ==
    IF ~cmd.ok THEN Raise("CalledProcessError") ELSE ParseCards(cmd.lines)

\* devices[name] = d, when a name has been read
Flush(devices, name, d) ==
    IF name # None /\ name # "" THEN DictSet(devices, name, d) ELSE devices

RECURSIVE ParseGroups(_, _, _, _)
\* the loop of AnalogVideo.list_devices over the lines of `v4l2-ctl --list-devices`
ParseGroups(lines, name, d, devices) ==
    IF lines = <<>> THEN Flush(devices, name, d)
    ELSE Bind(Strip(Head(lines)), LAMBDA line :
        IF Contains(":", line)
        THEN ParseGroups(Tail(lines), SubSeq(line, 1, Len(line) - 1), <<>>,
                         Flush(devices, name, d))
        ELSE IF StartsWith(line, "/dev/")
        THEN ParseGroups(Tail(lines), name, Append(d, line), devices)
        ELSE ParseGroups(Tail(lines), name, d, devices))

\* AnalogVideo.list_devices()
AnalogVideo_list_devices(cmd) ==
    IF ~cmd.ok THEN Raise("CalledProcessError")
    ELSE Ok(ParseGroups(cmd.lines, None, <<>>, <<>>))

(***************************************************************************)
(* The texts of the hosts modelled: the sound cards and video groups the   *)
(* enumeration commands can name, the configured entries, and the names a  *)
(* caller can ask the resolvers for                                        *)
(***************************************************************************)

CardKinds ==
    { [card_name |-> "USB Camera-B4.09.24.1 [USB Camera-B4.09.24.1]",
       card_type |-> "USB Audio"],
      [card_name |-> "USB PnP Sound Device", card_type |-> "USB Audio"],
      [card_name |-> "Cam [Cam]", card_type |-> "USB Audio"],
      [card_name |-> "Cam", card_type |-> "USB Audio"],
      [card_name |-> "HDA Intel PCH", card_type |-> "ALC892 Analog"],
      [card_name |-> "bcm2835-isp", card_type |-> "MAI PCM i2s-hifi-0"] }

GroupPsEye ==
    <<"USB Camera-B4.09.24.1 (usb-...):", "\t/dev/video0", "\t/dev/video1", "">>
GroupCam == <<"Cam (usb-1):", "\t/dev/video2", "">>
GroupIsp == <<"bcm2835-isp (platform:bcm2835-isp):", "\t/dev/video13", "">>


ConfigEntries ==
    { [name |-> "My Mic", data |-> [audio_device |-> "USB PnP Sound Device"]],
      [name |-> "Line In", data |-> [audio_device |-> "Cam"]],
      [name |-> "Webcam Mic", data |-> [audio_device |-> "Cam [Cam]"]],
      [name |-> "bcm2835-isp", data |-> [video_device |-> "video13"]],
      [name |-> "TV", data |-> [audio_device |-> "Tape Deck", video_device |-> "video2",
                                icon |-> "tv.png"]],
      [name |-> "Nothing", data |-> [icon |-> "tv.png"]] }

AudioQueries == {"USB PnP Sound Device", "Cam", "Tape Deck", None}
VideoQueries == {"video0", "Cam", "Tape Deck", None}

\* every group the hosts can list, parsed
AllGroups == ParseGroups(GroupPsEye \o GroupCam \o GroupIsp, None, <<>>, <<>>)

\* the names the audio resolver can be asked for
AudioTexts ==
    {k.card_name : k \in CardKinds}
        \cup {e.data.audio_device :
                e \in {c \in ConfigEntries : "audio_device" \in DOMAIN c.data}}
        \cup (AudioQueries \ {None})

\* the names the video resolver can be asked for
VideoTexts ==
    DictKeys(AllGroups)
        \cup {e.data.video_device :
                e \in {c \in ConfigEntries : "video_device" \in DOMAIN c.data}}
        \cup (VideoQueries \ {None}) \cup {"video0"}

\* the nodes the hosts can list
VideoNodes ==
    UNION {{AllGroups[i].val[j] : j \in 1..Len(AllGroups[i].val)} :
             i \in 1..Len(AllGroups)}

\* the pairs find_device can put before fuzzy_match's default strategy
ScoredPairs ==
    (AudioTexts \X {k.card_type : k \in CardKinds})
        \cup ({"/dev/" \o v : v \in VideoTexts} \X VideoNodes)

(***************************************************************************)
(* The library scorers (ovos_utils.parse), with 1.0 as 10000.              *)
(* fuzzy_match with the default strategy is difflib's ratio and is         *)
(* computed, once for every pair of texts the hosts can put before it.     *)
(* Of the partial token-sort ratio (rapidfuzz) the cases its definition    *)
(* decides are computed; every other pair scores `fuzz`, which Init draws. *)
(***************************************************************************)

\* the characters of s, in order
Chars(s) == [i \in 1..Len(s) |-> SubSeq(s, i, i)]

RECURSIVE CommonAt(_, _, _, _)
\* the length of the longest run common to a from i and b from j
CommonAt(a, b, i, j) ==
    IF i > Len(a) \/ j > Len(b) THEN 0
    ELSE IF a[i] # b[j] THEN 0
    ELSE 1 + CommonAt(a, b, i + 1, j + 1)

\* the greatest of a non-empty sequence of numbers
MaxOf(seq) ==
    Bind({seq[i] : i \in 1..Len(seq)}, LAMBDA values :
        CHOOSE k \in values : \A k2 \in values : k2 <= k)

\* the first position of k in a sequence that holds it
FirstOf(seq, k) ==
    CHOOSE i \in 1..Len(seq) : seq[i] = k /\ \A i2 \in 1..(i - 1) : seq[i2] # k

\* SequenceMatcher.find_longest_match: <<i, j, k>> with a[i..i+k-1] = b[j..j+k-1]
\* the longest such block, the earliest in a and then in b; k = 0 when none
LongestMatch(a, b) ==
    Bind([i \in 1..Len(a) |-> [j \in 1..Len(b) |-> CommonAt(a, b, i, j)]], LAMBDA run :
        Bind([i \in 1..Len(a) |-> MaxOf(run[i])], LAMBDA longest :
            Bind(MaxOf(longest), LAMBDA k :
                Bind(FirstOf(longest, k), LAMBDA i : <<i, FirstOf(run[i], k), k>>))))

RECURSIVE Matches(_)
\* the characters in the matching blocks SequenceMatcher finds in s[1] and s[2]:
\* the longest block, then the same to its left and to its right
Matches(s) ==
    IF s[1] = <<>> \/ s[2] = <<>> THEN 0
    ELSE Bind(LongestMatch(s[1], s[2]), LAMBDA m :
        IF m[3] = 0 THEN 0
        ELSE m[3]
             + Bind(<<SubSeq(s[1], 1, m[1] - 1), SubSeq(s[2], 1, m[2] - 1)>>, Matches)
             + Bind(<<SubSeq(s[1], m[1] + m[3], Len(s[1])),
                      SubSeq(s[2], m[2] + m[3], Len(s[2]))>>, Matches))

\* SequenceMatcher(None, x, against).ratio()
SequenceMatcher_ratio(x, against) ==
    IF Len(x) + Len(against) = 0 THEN 10000
    ELSE (20000 * Bind(<<Chars(x), Chars(against)>>, Matches)) \div (Len(x) + Len(against))

\* the ratio of every scored pair, computed once
RatioTable == {<<p[1], p[2], SequenceMatcher_ratio(p[1], p[2])>> : p \in ScoredPairs}

\* fuzzy_match(x, against): SequenceMatcher(None, x, against).ratio()
simple_ratio(x, against) ==
    (CHOOSE t \in RatioTable : t[1] = x /\ t[2] = against)[3]

IsAlnum(s) ==
    \A i \in 1..Len(s) :
        \/ DigitVal(SubSeq(s, i, i)) >= 0
        \/ \E k \in 1..Len(Upper) :
              SubSeq(s, i, i) = Upper[k] \/ SubSeq(s, i, i) = Lowercase[k]

\* s.split(): the whitespace-separated tokens
Tokens(s) == SelectSeq(Split(Replace(s, "\t", " "), " "), LAMBDA t : t # "")

TokenCount(ts, t) == Cardinality({i \in 1..Len(ts) : ts[i] = t})

\* the same tokens, in any order: the token-sorted strings are equal
SameTokens(ta, tb) ==
    /\ Len(ta) = Len(tb)
    /\ \A i \in 1..Len(ta) : TokenCount(ta, ta[i]) = TokenCount(tb, ta[i])

\* ta is a single alphanumeric token found inside a token of tb: the
\* token-sorted shorter string is a substring of the token-sorted longer one
TokenInside(ta, tb) ==
    /\ Len(ta) = 1
    /\ IsAlnum(ta[1])
    /\ \E i \in 1..Len(tb) : Contains(ta[1], tb[i])

\* fuzzy_match(x, against, strategy=MatchStrategy.PARTIAL_TOKEN_SORT_RATIO)
partial_token_sort_ratio(x, against) ==
    Bind(<<Tokens(x), Tokens(against)>>, LAMBDA t :
        IF t[1] = <<>> \/ t[2] = <<>> THEN 0
        ELSE IF SameTokens(t[1], t[2]) THEN 10000
        ELSE IF TokenInside(t[1], t[2]) \/ TokenInside(t[2], t[1]) THEN 10000
        ELSE fuzz)

Max(a, b) == IF a >= b THEN a ELSE b

\* match_one(query, choices)[1]: the best fuzzy_match; IndexError on no choices
match_one(query, choices) ==
    IF choices = <<>> THEN Raise("IndexError")
    ELSE Bind([i \in 1..Len(choices) |-> simple_ratio(query, choices[i])], LAMBDA sc :
        Ok(sc[CHOOSE i \in 1..Len(sc) : \A j \in 1..Len(sc) : sc[j] <= sc[i]]))

\* m placed after every element scoring at least as high
InsertDesc(sorted, m) ==
    Bind(Cardinality({i \in 1..Len(sorted) : sorted[i].score >= m.score}), LAMBDA k :
        SubSeq(sorted, 1, k) \o <<m>> \o SubSeq(sorted, k + 1, Len(sorted)))

RECURSIVE SortPrefix(_, _)
\* the first n matches, sorted
SortPrefix(matches, n) ==
    IF n = 0 THEN <<>>
    ELSE Bind(SortPrefix(matches, n - 1), LAMBDA sorted : InsertDesc(sorted, matches[n]))

\* sorted(matches, key=score, reverse=True): stable, equal scores keep their order
SortedDesc(matches) == Bind(matches, LAMBDA ms : SortPrefix(ms, Len(ms)))

(***************************************************************************)
(* Identity resolution                                                     *)
(***************************************************************************)

\* the acceptance threshold 0.75, with 1.0 as 100000 as the scores are
Threshold == 75000

\* the adjustment AnalogAudio.find_device makes for the card type
TypeAdjustment(device, card_type) ==
    Bind(Lower(card_type), LAMBDA t :
        IF Contains("usb", t) THEN 10000
        ELSE IF Contains("analog", t) THEN -10000
        ELSE simple_ratio(device, card_type))

\* the score AnalogAudio.find_device gives one card: 0.9 of the name's, adjusted
AudioScore(device, card) ==
    9 * partial_token_sort_ratio(device, card.card_name)
        + TypeAdjustment(device, card.card_type)

\* AnalogAudio.find_device(device) over the enumerated cards
AnalogAudio_find_device(device, cards) ==
    SortedDesc([i \in 1..Len(cards) |->
        [score |-> AudioScore(device, cards[i]), card_num |-> cards[i].card_num,
         device_num |-> cards[i].device_num, card_name |-> cards[i].card_name,
         card_type |-> cards[i].card_type]])

\* AnalogAudio.set_device_index: the card address
set_device_index(card_num, device_num) ==
    "hw:" \o ToString(card_num) \o "," \o ToString(device_num)

\* AnalogAudio.set_device(device): the address bound (self.card), or the exception
AnalogAudio_set_device(device, listing) ==
    IF device = None THEN Ok(set_device_index(0, 0))
    ELSE IF ~listing.ok THEN listing
    ELSE IF listing.val = <<>> THEN Raise("IndexError")
    ELSE Bind(AnalogAudio_find_device(device, listing.val)[1], LAMBDA card :
        IF card.score < Threshold THEN Raise("DeviceNotFound")
        ELSE Ok(set_device_index(card.card_num, card.device_num)))

\* AnalogVideo.find_device(device) over the enumerated groups
AnalogVideo_find_device(device, groups) ==
    Bind([i \in 1..Len(groups) |-> match_one("/dev/" \o device, groups[i].val)],
         LAMBDA m :
        IF \E i \in 1..Len(groups) : ~m[i].ok THEN Raise("IndexError")
        ELSE Ok(SortedDesc([i \in 1..Len(groups) |->
                 [name |-> groups[i].key,
                  score |-> 10 * Max(partial_token_sort_ratio(device, groups[i].key),
                                     m[i].val)]])))

\* the lookup that ends AnalogVideo.set_device, given the candidates found
BindVideo(found, listing) ==
    IF ~found.ok THEN found
    ELSE IF found.val = <<>> THEN Raise("IndexError")
    ELSE IF found.val[1].score < Threshold THEN Raise("DeviceNotFound")
    ELSE IF DictGet(listing.val, found.val[1].name) = <<>> THEN Raise("IndexError")
    ELSE Ok(DictGet(listing.val, found.val[1].name)[1])

\* AnalogVideo.set_device(device): the node bound (self.device), or the exception
AnalogVideo_set_device(device, listing) ==
    IF ~listing.ok THEN listing
    ELSE Bind(AnalogVideo_find_device(
                  IF device = None \/ device = "" THEN "video0" ELSE device, listing.val),
              LAMBDA found : BindVideo(found, listing))

(***************************************************************************)
(* Devices.  src, cfg, rawCard and rawGroup record where an object was     *)
(* made (which configuration entry, which raw card or group); the program  *)
(* does not read them.                                                     *)
(***************************************************************************)

ResDir == "<pkg>/res/"

NewDevice(cls, name, icon, audio_device, card, video_device) ==
    [cls |-> cls, name |-> name, icon |-> icon, audio_device |-> audio_device,
     card |-> card, video_device |-> video_device,
     src |-> "scan", cfg |-> 0, rawCard |-> 0, rawGroup |-> 0]

\* AnalogAudio(device, name, icon): the constructor resolves the device
AnalogAudio(device, name, icon, cards) ==
    Bind(AnalogAudio_set_device(device, cards), LAMBDA bound :
        IF ~bound.ok THEN bound
        ELSE Ok(NewDevice("AnalogAudio", name, icon, device, bound.val, None)))

\* AnalogVideo(device, name, icon=icon)
AnalogVideo(device, name, icon, groups) ==
    Bind(AnalogVideo_set_device(device, groups), LAMBDA bound :
        IF ~bound.ok THEN bound
        ELSE Ok(NewDevice("AnalogVideo", name, icon, None, None, bound.val)))

\* AnalogVideoAudio(audio_device, video_device, name, icon=icon): video first
AnalogVideoAudio(audio_device, video_device, name, icon, cards, groups) ==
    Bind(AnalogVideo_set_device(video_device, groups), LAMBDA video :
        IF ~video.ok THEN video
        ELSE Bind(AnalogAudio_set_device(audio_device, cards), LAMBDA audio :
            IF ~audio.ok THEN audio
            ELSE Ok(NewDevice("AnalogVideoAudio", name, icon, audio_device, audio.val,
                              video.val))))

\* repr(dev): the identity key
Repr(dev) ==
    IF dev.cls = "AnalogAudio" THEN "AnalogAudio(" \o dev.card \o ")"
    ELSE IF dev.cls = "AnalogVideo" THEN "AnalogVideo(" \o dev.video_device \o ")"
    ELSE "AnalogVideoAudio(" \o dev.card \o "+" \o dev.video_device \o ")"

(***************************************************************************)
(* Fingerprints and the scan                                               *)
(***************************************************************************)

\* data.get(k, default)
Get(data, k, default) == IF k \in DOMAIN data THEN data[k] ELSE default

FINGERPRINTS ==
    << [alias |-> "Playstation Eye Mic",
        data |-> [card_name |-> "USB Camera-B4.09.24.1", card_type |-> "USB Audio",
                  icon |-> ResDir \o "pseye.png", type |-> "audio"]],
       [alias |-> "Playstation Eye Camera",
        data |-> [device_name |-> "USB Camera-B4.09.24.1",
                  icon |-> ResDir \o "pseye.png", type |-> "video"]],
       [alias |-> "USB Soundcard",
        data |-> [card_name |-> "USB PnP Sound Device", card_type |-> "USB Audio",
                  icon |-> ResDir \o "soundcard.png", type |-> "audio"]] >>

\* the first fingerprint, in declaration order, that P accepts; 0 when none does
FirstFingerprint(P(_)) ==
    IF \E i \in 1..Len(FINGERPRINTS) : P(FINGERPRINTS[i].data)
    THEN CHOOSE i \in 1..Len(FINGERPRINTS) :
            P(FINGERPRINTS[i].data) /\ \A j \in 1..(i - 1) : ~P(FINGERPRINTS[j].data)
    ELSE 0

\* the test scan_audio_devices makes of one fingerprint
AudioFingerprintMatches(data, name, cardtype) ==
    /\ Contains(Get(data, "card_name", "[None]"), name)
    /\ Contains(Get(data, "card_type", "[None]"), cardtype)

\* the test scan_devices makes of one fingerprint
VideoFingerprintMatches(data, name) ==
    /\ Get(data, "type", "") = "video"
    /\ Contains(Get(data, "device_name", "[None]"), name)

\* the device scan_audio_devices yields for the i-th enumerated card
ScanAudioAt(listing, i) ==
    Bind(FirstFingerprint(LAMBDA data :
             AudioFingerprintMatches(data, listing.val[i].card_name,
                                     listing.val[i].card_type)),
         LAMBDA fp :
        Bind(AnalogAudio(listing.val[i].card_name,
                         IF fp = 0 THEN listing.val[i].card_name
                         ELSE FINGERPRINTS[fp].alias,
                         IF fp = 0 THEN ResDir \o "mic.png"
                         ELSE Get(FINGERPRINTS[fp].data, "icon", "soundcard.png"),
                         listing),
             LAMBDA dev :
            IF ~dev.ok THEN dev ELSE Ok([dev.val EXCEPT !.rawCard = i])))

\* the first failure among the results, or all their values
Collect(results) ==
    IF \E i \in 1..Len(results) : ~results[i].ok
    THEN results[CHOOSE i \in 1..Len(results) :
                    ~results[i].ok /\ \A j \in 1..(i - 1) : results[j].ok]
    ELSE Ok([i \in 1..Len(results) |-> results[i].val])

\* list(scan_audio_devices())
scan_audio_devices(listing) ==
    IF ~listing.ok THEN listing
    ELSE Bind([i \in 1..Len(listing.val) |-> ScanAudioAt(listing, i)], Collect)

\* PairingIndex, were the name tested with startswith
PairingIndex_startswith(audio, alias) ==
    IF \E k \in 1..Len(audio) : StartsWith(audio[k].name, "[" \o alias \o "]")
    THEN CHOOSE k \in 1..Len(audio) :
            /\ StartsWith(audio[k].name, "[" \o alias \o "]")
            /\ \A j \in 1..(k - 1) : ~StartsWith(audio[j].name, "[" \o alias \o "]")
    ELSE 0

\* the first device of the working set whose name ends with "[alias]"; 0 when none
PairingIndex(audio, alias) ==
    IF \E k \in 1..Len(audio) : EndsWith(audio[k].name, "[" \o alias \o "]")
    THEN CHOOSE k \in 1..Len(audio) :
            /\ EndsWith(audio[k].name, "[" \o alias \o "]")
            /\ \A j \in 1..(k - 1) : ~EndsWith(audio[j].name, "[" \o alias \o "]")
    ELSE 0

\* what scan_devices decides for a group: its fingerprint, or its alias and pairing
VideoPlan(name, audio) ==
    Bind(FirstFingerprint(LAMBDA data : VideoFingerprintMatches(data, name)), LAMBDA fp :
        IF fp # 0 THEN [fp |-> fp, alias |-> FINGERPRINTS[fp].alias, pair |-> 0]
        ELSE Bind(Split(name, " (")[1], LAMBDA alias :
            [fp |-> 0, alias |-> alias, pair |-> PairingIndex(audio, alias)]))

\* audio.remove(d)
RemoveAt(audio, k) == SubSeq(audio, 1, k - 1) \o SubSeq(audio, k + 1, Len(audio))

\* the device scan_devices yields for the g-th group
ScanVideoAt(g, plan, audio, cards, groups) ==
    Bind(IF plan.pair # 0
         THEN AnalogVideoAudio(audio[plan.pair].name, groups.val[g].key, plan.alias,
                               "rca.png", cards, groups)
         ELSE AnalogVideo(groups.val[g].key, plan.alias,
                          IF plan.fp # 0
                          THEN Get(FINGERPRINTS[plan.fp].data, "icon", "camera.png")
                          ELSE ResDir \o "camera.png",
                          groups),
         LAMBDA dev :
        IF ~dev.ok THEN dev
        ELSE Ok([dev.val EXCEPT
                    !.rawGroup = g,
                    !.rawCard = IF plan.pair # 0 THEN audio[plan.pair].rawCard ELSE 0]))

RECURSIVE MergeVideo(_, _, _, _)
\* the loop of scan_devices from the g-th group on, then the audio left over
MergeVideo(g, audio, cards, groups) ==
    IF g > Len(groups.val) THEN Ok(audio)
    ELSE Bind(VideoPlan(groups.val[g].key, audio), LAMBDA plan :
        Bind(ScanVideoAt(g, plan, audio, cards, groups), LAMBDA dev :
            IF ~dev.ok THEN dev
            ELSE Bind(MergeVideo(g + 1,
                                 IF plan.pair # 0 THEN RemoveAt(audio, plan.pair)
                                 ELSE audio,
                                 cards, groups),
                      LAMBDA rest :
                IF ~rest.ok THEN rest ELSE Ok(<<dev.val>> \o rest.val))))

\* list(scan_devices())
scan_devices(cards, groups) ==
    Bind(scan_audio_devices(cards), LAMBDA audio :
        IF ~audio.ok THEN audio
        ELSE IF ~groups.ok THEN groups
        ELSE MergeVideo(1, audio.val, cards, groups))

(***************************************************************************)
(* Configuration                                                           *)
(***************************************************************************)

\* the files isfile() finds
Files == {"/usr/share/icons/tv.png"}

IsFile(path) == path \in Files

\* the icon path load_device settles on for a configured icon
ResolveIcon(icon) ==
    IF IsFile("~/.local/share/icons/" \o icon) THEN "~/.local/share/icons/" \o icon
    ELSE IF IsFile("/usr/share/icons/" \o icon) THEN "/usr/share/icons/" \o icon
    ELSE IF IsFile(ResDir \o icon) THEN ResDir \o icon
    ELSE icon

Truthy(v) == v # None /\ v # ""

\* what load_device returns when it builds nothing
NoDevice == [cls |-> "NoneType"]

\* the body of the try block of load_device
LoadDeviceTry(name, audio, video, icon, cards, groups) ==
    IF Truthy(audio) /\ Truthy(video)
    THEN AnalogVideoAudio(audio, video, name,
                          IF Truthy(icon) THEN icon ELSE ResDir \o "rca.png", cards, groups)
    ELSE IF Truthy(audio)
    THEN AnalogAudio(audio, name,
                     IF Truthy(icon) THEN icon ELSE ResDir \o "soundcard.png", cards)
    ELSE IF Truthy(video)
    THEN AnalogVideo(video, name,
                     IF Truthy(icon) THEN icon ELSE ResDir \o "camera.png", groups)
    ELSE Ok(NoDevice)

\* load_device, were the try block without its except clause
load_device_uncaught(name, data, cards, groups) ==
    LoadDeviceTry(name, Get(data, "audio_device", None),
                  Get(data, "video_device", None),
                  IF Truthy(Get(data, "icon", None)) THEN ResolveIcon(data.icon) ELSE None,
                  cards, groups)

\* load_device(name, data): any Exception is logged and None returned
load_device(name, data, cards, groups) ==
    Bind(LoadDeviceTry(name, Get(data, "audio_device", None),
                       Get(data, "video_device", None),
                       IF Truthy(Get(data, "icon", None))
                       THEN ResolveIcon(data.icon) ELSE None,
                       cards, groups),
         LAMBDA r : IF r.ok THEN r ELSE Ok(NoDevice))

\* the analog_devices mapping load_from_config reads; {} when the read fails
ConfiguredDevices(conf) == IF conf.ok THEN conf.analog_devices ELSE <<>>

\* the device of the i-th configured entry, marked with where it came from
LoadFrom(entries, i, cards, groups) ==
    Bind(load_device(entries[i].name, entries[i].data, cards, groups), LAMBDA r :
        IF ~r.ok \/ r.val.cls = "NoneType" THEN r
        ELSE Ok([r.val EXCEPT !.src = "config", !.cfg = i]))

\* list(load_from_config()): the entries that built a device, in order
load_from_config(conf, cards, groups) ==
    Bind(ConfiguredDevices(conf), LAMBDA entries :
        Bind(Collect([i \in 1..Len(entries) |-> LoadFrom(entries, i, cards, groups)]),
             LAMBDA loaded :
            IF ~loaded.ok THEN loaded
            ELSE Ok(SelectSeq(loaded.val, LAMBDA d : d.cls # "NoneType"))))

DefaultBlacklist == <<"bcm2835-isp", "bcm2835-codec-decode">>

\* get_device_blacklist()
get_device_blacklist(conf) ==
    IF ~conf.ok THEN <<>>
    ELSE IF conf.analog_blacklist # <<>> THEN conf.analog_blacklist
    ELSE DefaultBlacklist

\* x in list
InList(x, list) == \E i \in 1..Len(list) : list[i] = x

(***************************************************************************)
(* Reconciliation                                                          *)
(***************************************************************************)

RECURSIVE InsertConfigured(_, _, _)
\* devices[repr(dev)] = dev for the first n configured devices
InsertConfigured(devices, loaded, n) ==
    IF n = 0 THEN devices
    ELSE Bind(InsertConfigured(devices, loaded, n - 1), LAMBDA ds :
             DictSet(ds, Repr(loaded[n]), loaded[n]))

\* InsertScanned, were the blacklist not consulted
InsertScanned_unfiltered(devices, dev, blacklist) ==
    IF Repr(dev) \notin DictKeys(devices) THEN DictSet(devices, Repr(dev), dev)
    ELSE devices

\* InsertScanned, were a scanned device stored whether or not its key is present
InsertScanned_overwriting(devices, dev, blacklist) ==
    IF InList(dev.name, blacklist) THEN devices
    ELSE DictSet(devices, Repr(dev), dev)

\* the body of the scan loop of get_devices for one device
InsertScanned(devices, dev, blacklist) ==
    IF InList(dev.name, blacklist) THEN devices
    ELSE IF Repr(dev) \notin DictKeys(devices) THEN DictSet(devices, Repr(dev), dev)
    ELSE devices

RECURSIVE InsertAllScanned(_, _, _, _)
\* the scan loop of get_devices over the first n scanned devices
InsertAllScanned(devices, scanned, n, blacklist) ==
    IF n = 0 THEN devices
    ELSE Bind(InsertAllScanned(devices, scanned, n - 1, blacklist), LAMBDA ds :
             InsertScanned(ds, scanned[n], blacklist))

\* list(get_devices())
get_devices(conf, cards, groups) ==
    Bind(load_from_config(conf, cards, groups), LAMBDA loaded :
        IF ~loaded.ok THEN loaded
        ELSE Bind(scan_devices(cards, groups), LAMBDA scanned :
            IF ~scanned.ok THEN scanned
            ELSE Bind(InsertConfigured(<<>>, loaded.val, Len(loaded.val)), LAMBDA ds :
                Ok(DictValues(InsertAllScanned(ds, scanned.val, Len(scanned.val),
                                               get_device_blacklist(conf)))))))

\* the entry get_device_json stores for a device
JsonEntry(d) ==
    IF d.cls = "AnalogAudio" THEN [icon |-> d.icon, audio |-> d.audio_device]
    ELSE IF d.cls = "AnalogVideo" THEN [icon |-> d.icon, video |-> d.video_device]
    ELSE [icon |-> d.icon, audio |-> d.audio_device, video |-> d.video_device]

RECURSIVE JsonOf(_, _)
\* device_data[d.name] = {...} for the first n devices
JsonOf(devices, n) ==
    IF n = 0 THEN <<>>
    ELSE Bind(JsonOf(devices, n - 1), LAMBDA device_data :
             DictSet(device_data, devices[n].name, JsonEntry(devices[n])))

\* get_device_json()
get_device_json(conf, cards, groups) ==
    Bind(get_devices(conf, cards, groups), LAMBDA devices :
        IF ~devices.ok THEN devices ELSE Ok(JsonOf(devices.val, Len(devices.val))))

(***************************************************************************)
(* The host: what the enumeration commands print, and the configuration    *)
(***************************************************************************)

MaxCards == 2
MaxMergeCards == 3
MaxConfig == 2
MaxStops == 2

\* the card kinds the reconciliation runs are drawn from
HostCardKinds ==
    {k \in CardKinds : k.card_name \in {"USB PnP Sound Device", "Cam", "bcm2835-isp"}}

\* one line of `arecord -l` naming a card, and the lines that follow it
CardLines(c) ==
    << "card " \o ToString(c.card_num) \o ": " \o c.card_name \o ", device "
           \o ToString(c.device_num) \o ": " \o c.card_type,
       "  Subdevices: 1/1" >>

RECURSIVE ArecordLines(_)
ArecordLines(cards) ==
    IF cards = <<>> THEN <<>> ELSE CardLines(Head(cards)) \o ArecordLines(Tail(cards))

\* what `arecord -l` prints for the cards, in the order given
ArecordOf(cards) ==
    [ok |-> TRUE,
     lines |-> <<"**** List of CAPTURE Hardware Devices ****">> \o ArecordLines(cards)]

\* up to max cards of the given kinds at distinct addresses, in any order
CardListsAnyOrder(kinds, max) ==
    UNION { { [i \in 1..n |-> [card_num |-> f[i][2], device_num |-> 0,
                                card_name |-> f[i][1].card_name,
                                card_type |-> f[i][1].card_type]] :
              f \in { g \in [1..n -> kinds \X (0..(max - 1))] :
                        \A i, j \in 1..n : i # j => g[i][2] # g[j][2] } } :
            n \in 0..max }

\* up to MaxCards cards of the given kinds, numbered in the order listed
CardListsInOrder(kinds) ==
    UNION { { [i \in 1..n |-> [card_num |-> i - 1, device_num |-> 0,
                                card_name |-> f[i].card_name,
                                card_type |-> f[i].card_type]] :
              f \in [1..n -> kinds] } :
            n \in 0..MaxCards }

\* what `v4l2-ctl --list-devices` prints
V4l2Outputs ==
    { [ok |-> TRUE, lines |-> ls] :
        ls \in { <<>>, GroupPsEye, GroupCam, GroupIsp, GroupPsEye \o GroupCam,
                 GroupCam \o GroupPsEye, GroupCam \o GroupIsp } }

CommandFailed == [ok |-> FALSE, lines |-> <<>>]

ArecordMalformed == [ok |-> TRUE, lines |-> <<"card 0: unreadable">>]

\* analog_devices: up to MaxConfig entries with distinct names, in any order
ConfigLists ==
    UNION { { f \in [1..n -> ConfigEntries] :
                \A i, j \in 1..n : i # j => f[i].name # f[j].name } :
            n \in 0..MaxConfig }

Blacklists == { <<>>, <<"Cam">> }

Configurations ==
    { [ok |-> TRUE, analog_devices |-> d, analog_blacklist |-> b] :
        d \in ConfigLists, b \in Blacklists }
    \cup { [ok |-> FALSE, analog_devices |-> <<>>, analog_blacklist |-> <<>>] }

\* scores a pair sharing no token can have, all under the threshold
FuzzLevels == {4000, 7000}

\* the binding AnalogAudio.__init__ leaves, before any thread is started
IdleBinding ==
    /\ stream = 0
    /\ audio_player = 0
    /\ running = FALSE
    /\ procs = <<>>
    /\ runPc = "unstarted"
    /\ spawned = 0
    /\ stopPc = "idle"
    /\ stopsLeft = 0
    /\ stopsDone = 0
    /\ lastStop = "never"
    /\ raised = {}
    /\ executables = {}

bindingVars == <<stream, audio_player, running, procs, runPc, spawned, stopPc,
                 stopsLeft, stopsDone, lastStop, raised, executables>>

hostVars == <<arecord, v4l2, config, fuzz>>

(***************************************************************************)
(* Reconciliation: get_devices() and get_device_json() on any host         *)
(***************************************************************************)

Init ==
    /\ arecord \in {ArecordOf(cs) : cs \in CardListsInOrder(HostCardKinds)}
                       \cup {CommandFailed, ArecordMalformed}
    /\ v4l2 \in {o \in V4l2Outputs : o.lines \in {<<>>, GroupCam, GroupCam \o GroupIsp}}
                    \cup {CommandFailed}
    /\ config \in Configurations
    /\ fuzz \in FuzzLevels
    /\ op = "none"
    /\ out = None
    /\ IdleBinding

Cards == AnalogAudio_list_devices(arecord)
Groups == AnalogVideo_list_devices(v4l2)

GetDevices ==
    /\ op = "none"
    /\ op' = "get_devices"
    /\ out' = Bind(<<Cards, Groups>>, LAMBDA h : get_devices(config, h[1], h[2]))
    /\ UNCHANGED <<hostVars, bindingVars>>

GetDeviceJson ==
    /\ op = "none"
    /\ op' = "get_device_json"
    /\ out' = Bind(<<Cards, Groups>>, LAMBDA h : get_device_json(config, h[1], h[2]))
    /\ UNCHANGED <<hostVars, bindingVars>>

\* the caller drops the result; the next call computes everything afresh
Return ==
    /\ op # "none"
    /\ op' = "none"
    /\ out' = None
    /\ UNCHANGED <<hostVars, bindingVars>>

Next == GetDevices \/ GetDeviceJson \/ Return

Spec == Init /\ [][Next]_vars

(***************************************************************************)
(* Scan and resolution on a host whose enumeration commands succeed        *)
(***************************************************************************)

InitScan ==
    /\ arecord \in {ArecordOf(cs) : cs \in CardListsAnyOrder(CardKinds, MaxCards)}
    /\ v4l2 \in V4l2Outputs
    /\ config = [ok |-> TRUE, analog_devices |-> <<>>, analog_blacklist |-> <<>>]
    /\ fuzz \in FuzzLevels
    /\ op = "none"
    /\ out = None
    /\ IdleBinding

ScanAudioDevices ==
    /\ op = "none"
    /\ op' = "scan_audio_devices"
    /\ out' = Bind(Cards, scan_audio_devices)
    /\ UNCHANGED <<hostVars, bindingVars>>

ScanDevices ==
    /\ op = "none"
    /\ op' = "scan_devices"
    /\ out' = Bind(<<Cards, Groups>>, LAMBDA h : scan_devices(h[1], h[2]))
    /\ UNCHANGED <<hostVars, bindingVars>>

SetAudioDevice ==
    /\ op = "none"
    /\ \E q \in AudioQueries :
          /\ op' = "AnalogAudio.set_device"
          /\ out' = Bind(Cards, LAMBDA cards :
                       [query |-> q, result |-> AnalogAudio_set_device(q, cards)])
    /\ UNCHANGED <<hostVars, bindingVars>>

SetVideoDevice ==
    /\ op = "none"
    /\ \E q \in VideoQueries :
          /\ op' = "AnalogVideo.set_device"
          /\ out' = Bind(Groups, LAMBDA groups :
                       [query |-> q, result |-> AnalogVideo_set_device(q, groups)])
    /\ UNCHANGED <<hostVars, bindingVars>>

NextScan == ScanAudioDevices \/ ScanDevices \/ SetAudioDevice \/ SetVideoDevice \/ Return

SpecScan == InitScan /\ [][NextScan]_vars

(***************************************************************************)
(* The scan on a host with a webcam among up to MaxMergeCards cards        *)
(***************************************************************************)

\* the card kinds the merge runs are drawn from
MergeCardKinds ==
    {k \in CardKinds : k.card_name \in {"USB PnP Sound Device", "Cam", "Cam [Cam]"}}

InitMerge ==
    /\ arecord \in {ArecordOf(cs) : cs \in CardListsAnyOrder(MergeCardKinds, MaxMergeCards)}
    /\ v4l2 \in {o \in V4l2Outputs : o.lines \in {GroupCam, GroupCam \o GroupPsEye}}
    /\ config = [ok |-> TRUE, analog_devices |-> <<>>, analog_blacklist |-> <<>>]
    /\ fuzz \in FuzzLevels
    /\ op = "none"
    /\ out = None
    /\ IdleBinding

NextMerge == ScanDevices \/ Return

SpecMerge == InitMerge /\ [][NextMerge]_vars

(***************************************************************************)
(* Lifecycle of one AnalogAudio binding: run() on the binding's own        *)
(* thread, stop() called by another thread, one attribute access or        *)
(* subprocess call per step                                                *)
(***************************************************************************)

InitStop ==
    /\ arecord = ArecordOf(<<>>)
    /\ v4l2 = [ok |-> TRUE, lines |-> <<>>]
    /\ config = [ok |-> TRUE, analog_devices |-> <<>>, analog_blacklist |-> <<>>]
    /\ fuzz \in FuzzLevels
    /\ op = "none"
    /\ out = None
    /\ stream = 0
    /\ audio_player = 0
    /\ running = FALSE
    /\ procs = <<>>
    /\ runPc = "unstarted"
    /\ spawned = 0
    /\ stopPc = "idle"
    /\ stopsLeft \in 1..MaxStops
    /\ stopsDone = 0
    /\ lastStop = "never"
    /\ raised = {}
    /\ executables \in SUBSET {"arecord", "aplay"}

idleVars == <<arecord, v4l2, config, fuzz, op, out, executables>>

\* subprocess.Popen(cmd, ...): the process table with one more live process
Popen(cmd) == Append(procs, [cmd |-> cmd, alive |-> TRUE])

\* p.terminate(); p.communicate(): the process table once p has exited
Terminate(p) == [procs EXCEPT ![p].alive = FALSE]

\* start() has run() begin with self.stop(); the binding is as constructed,
\* so stop() finds nothing to terminate and clears running
RunStop ==
    /\ runPc = "unstarted"
    /\ runPc' = "set_running"
    /\ running' = FALSE
    /\ UNCHANGED <<idleVars, stream, audio_player, procs, spawned, stopPc, stopsLeft,
                   stopsDone, lastStop, raised>>

\* self.running = True
RunSetRunning ==
    /\ runPc = "set_running"
    /\ runPc' = "find_arecord"
    /\ running' = TRUE
    /\ UNCHANGED <<idleVars, stream, audio_player, procs, spawned, stopPc, stopsLeft,
                   stopsDone, lastStop, raised>>

\* arecord = find_executable("arecord"); if arecord: ... else: LOG.exception(...)
RunFindArecord ==
    /\ runPc = "find_arecord"
    /\ runPc' = IF "arecord" \in executables THEN "popen" ELSE "clear_running"
    /\ UNCHANGED <<idleVars, stream, audio_player, running, procs, spawned, stopPc,
                   stopsLeft, stopsDone, lastStop, raised>>

\* self.stream = subprocess.Popen(player, ...)
RunPopen ==
    /\ runPc = "popen"
    /\ runPc' = "check_stream"
    /\ procs' = Popen("arecord")
    /\ stream' = Len(procs) + 1
    /\ UNCHANGED <<idleVars, audio_player, running, spawned, stopPc, stopsLeft,
                   stopsDone, lastStop, raised>>

\* start_audio_playback: if self.stream:
RunCheckStream ==
    /\ runPc = "check_stream"
    /\ runPc' = IF stream # 0 THEN "find_aplay" ELSE "clear_running"
    /\ UNCHANGED <<idleVars, stream, audio_player, running, procs, spawned, stopPc,
                   stopsLeft, stopsDone, lastStop, raised>>

\* play_cmd = find_executable("aplay"); if not play_cmd: LOG.exception(...)
RunFindAplay ==
    /\ runPc = "find_aplay"
    /\ runPc' = IF "aplay" \in executables THEN "spawn_player" ELSE "clear_running"
    /\ UNCHANGED <<idleVars, stream, audio_player, running, procs, spawned, stopPc,
                   stopsLeft, stopsDone, lastStop, raised>>

\* subprocess.Popen(play_cmd, stdin=self.stream.stdout, ...): self.stream is read
\* again; None has no attribute stdout and the AttributeError ends run()
RunSpawnPlayer ==
    /\ runPc = "spawn_player"
    /\ IF stream = 0
       THEN /\ runPc' = "raised"
            /\ raised' = raised \cup {"run"}
            /\ UNCHANGED <<procs, spawned>>
       ELSE /\ runPc' = "assign_player"
            /\ procs' = Popen("aplay")
            /\ spawned' = Len(procs) + 1
            /\ UNCHANGED raised
    /\ UNCHANGED <<idleVars, stream, audio_player, running, stopPc, stopsLeft,
                   stopsDone, lastStop>>

\* self.audio_player = <the Popen object>
RunAssignPlayer ==
    /\ runPc = "assign_player"
    /\ runPc' = "clear_running"
    /\ audio_player' = spawned
    /\ spawned' = 0
    /\ UNCHANGED <<idleVars, stream, running, procs, stopPc, stopsLeft, stopsDone,
                   lastStop, raised>>

\* self.running = False, the last statement of run()
RunClearRunning ==
    /\ runPc = "clear_running"
    /\ runPc' = "done"
    /\ running' = FALSE
    /\ UNCHANGED <<idleVars, stream, audio_player, procs, spawned, stopPc, stopsLeft,
                   stopsDone, lastStop, raised>>

RunEnded == runPc \in {"done", "raised"}

\* the caller invokes stop()
StopBegin ==
    /\ stopPc = "idle"
    /\ stopsLeft > 0
    /\ stopPc' = "check_player"
    /\ stopsLeft' = stopsLeft - 1
    /\ lastStop' = IF runPc = "unstarted" THEN "before run"
                   ELSE IF RunEnded THEN "after run" ELSE "during run"
    /\ UNCHANGED <<idleVars, stream, audio_player, running, procs, runPc, spawned,
                   stopsDone, raised>>

\* stop_audio_playback: if self.audio_player:
StopCheckPlayer ==
    /\ stopPc = "check_player"
    /\ stopPc' = IF audio_player # 0 THEN "terminate_player" ELSE "check_stream"
    /\ UNCHANGED <<idleVars, stream, audio_player, running, procs, runPc, spawned,
                   stopsLeft, stopsDone, lastStop, raised>>

\* self.audio_player.terminate(); self.audio_player.communicate()
StopTerminatePlayer ==
    /\ stopPc = "terminate_player"
    /\ stopPc' = "clear_player"
    /\ procs' = Terminate(audio_player)
    /\ UNCHANGED <<idleVars, stream, audio_player, running, runPc, spawned, stopsLeft,
                   stopsDone, lastStop, raised>>

\* finally: self.audio_player = None
StopClearPlayer ==
    /\ stopPc = "clear_player"
    /\ stopPc' = "check_stream"
    /\ audio_player' = 0
    /\ UNCHANGED <<idleVars, stream, running, procs, runPc, spawned, stopsLeft,
                   stopsDone, lastStop, raised>>

\* stop: if self.stream:
StopCheckStream ==
    /\ stopPc = "check_stream"
    /\ stopPc' = IF stream # 0 THEN "terminate_stream" ELSE "clear_running"
    /\ UNCHANGED <<idleVars, stream, audio_player, running, procs, runPc, spawned,
                   stopsLeft, stopsDone, lastStop, raised>>

\* self.stream.terminate(); self.stream.communicate()
StopTerminateStream ==
    /\ stopPc = "terminate_stream"
    /\ stopPc' = "clear_stream"
    /\ procs' = Terminate(stream)
    /\ UNCHANGED <<idleVars, stream, audio_player, running, runPc, spawned, stopsLeft,
                   stopsDone, lastStop, raised>>

\* finally: self.stream = None
StopClearStream ==
    /\ stopPc = "clear_stream"
    /\ stopPc' = "clear_running"
    /\ stream' = 0
    /\ UNCHANGED <<idleVars, audio_player, running, procs, runPc, spawned, stopsLeft,
                   stopsDone, lastStop, raised>>

\* self.running = False, the last statement of stop()
StopClearRunning ==
    /\ stopPc = "clear_running"
    /\ stopPc' = "idle"
    /\ running' = FALSE
    /\ stopsDone' = stopsDone + 1
    /\ UNCHANGED <<idleVars, stream, audio_player, procs, runPc, spawned, stopsLeft,
                   lastStop, raised>>

NextStop ==
    \/ RunStop \/ RunSetRunning \/ RunFindArecord \/ RunPopen \/ RunCheckStream
    \/ RunFindAplay \/ RunSpawnPlayer \/ RunAssignPlayer \/ RunClearRunning
    \/ StopBegin \/ StopCheckPlayer \/ StopTerminatePlayer \/ StopClearPlayer
    \/ StopCheckStream \/ StopTerminateStream \/ StopClearStream \/ StopClearRunning

SpecStop == InitStop /\ [][NextStop]_vars

(***************************************************************************)
(* Properties                                                              *)
(***************************************************************************)

\* what load_from_config() and scan_devices() give on the host of the current state
Loaded == Bind(<<Cards, Groups>>, LAMBDA h : load_from_config(config, h[1], h[2]))
Scanned == Bind(<<Cards, Groups>>, LAMBDA h : scan_devices(h[1], h[2]))

\* the identity keys of a sequence of devices
Keys(devices) == {Repr(devices[i]) : i \in 1..Len(devices)}

\* C1 as stated: no device whose display name is in the blacklist is in the
\* collection get_devices() returns, whether it was configured or scanned
C1_BlacklistInvariant ==
    (op = "get_devices" /\ out.ok) =>
        \A i \in 1..Len(out.val) :
            ~InList(out.val[i].name, get_device_blacklist(config))

\* C1, amended: a device whose display name is in the blacklist is in the
\* collection get_devices() returns only if it was loaded from configuration;
\* no scan-discovered device named in the blacklist is ever in it
C1_ScanBlacklist ==
    (op = "get_devices" /\ out.ok) =>
        \A i \in 1..Len(out.val) :
            InList(out.val[i].name, get_device_blacklist(config))
                => out.val[i].src = "config"

\* get_devices() returned, and the scan had found a device named in the blacklist
\* whose identity key is not in the collection
C1_Witness ==
    /\ op = "get_devices"
    /\ out.ok
    /\ Bind(Scanned, LAMBDA scanned :
          \E k \in 1..Len(scanned.val) :
              /\ InList(scanned.val[k].name, get_device_blacklist(config))
              /\ Repr(scanned.val[k]) \notin Keys(out.val))

\* C2: when a configured device and a scanned device have the same identity key,
\* get_devices() holds exactly one entry for the key, the entry is the configured
\* object, and it stands among the configured entries, before every scanned one
C2_Priority ==
    (op = "get_devices" /\ out.ok) =>
        Bind(<<Loaded.val, Scanned.val>>, LAMBDA h :
            \A c \in 1..Len(h[1]), k \in 1..Len(h[2]) :
                Repr(h[1][c]) = Repr(h[2][k]) =>
                    /\ Cardinality({i \in 1..Len(out.val) :
                                       Repr(out.val[i]) = Repr(h[1][c])}) = 1
                    /\ \E i \in 1..Len(out.val) :
                          /\ Repr(out.val[i]) = Repr(h[1][c])
                          /\ \E c2 \in 1..Len(h[1]) : out.val[i] = h[1][c2]
                          /\ out.val[i] # h[2][k]
                          /\ \A j \in 1..i : out.val[j].src = "config")

\* get_devices() returned on a host where the scan found, under another name and
\* not blacklisted, the hardware a configured entry resolves to
C2_Witness ==
    /\ op = "get_devices"
    /\ out.ok
    /\ Bind(<<Loaded.val, Scanned.val>>, LAMBDA h :
          \E c \in 1..Len(h[1]), k \in 1..Len(h[2]) :
              /\ Repr(h[1][c]) = Repr(h[2][k])
              /\ h[1][c].name # h[2][k].name
              /\ ~InList(h[2][k].name, get_device_blacklist(config)))

\* the enumeration is one card and one group, and the card's name ends with
\* "[A]", A being the group's name up to the first " ("
OnePair(cards, groups) ==
    /\ Len(cards) = 1
    /\ Len(groups) = 1
    /\ EndsWith(cards[1].card_name, "[" \o Split(groups[1].key, " (")[1] \o "]")

\* scan_devices() gave one composite device, of the one card and the one group
OneComposite(cards, groups) ==
    /\ out.ok
    /\ Len(out.val) = 1
    /\ out.val[1].cls = "AnalogVideoAudio"
    /\ out.val[1].name = Split(groups[1].key, " (")[1]
    /\ out.val[1].card = set_device_index(cards[1].card_num, cards[1].device_num)
    /\ out.val[1].video_device = groups[1].val[1]

\* scan_devices() gave the group and the card as two standalone devices
TwoStandalone(cards, groups) ==
    /\ out.ok
    /\ Len(out.val) = 2
    /\ out.val[1].cls = "AnalogVideo"
    /\ out.val[1].video_device = groups[1].val[1]
    /\ out.val[2].cls = "AnalogAudio"
    /\ out.val[2].card = set_device_index(cards[1].card_num, cards[1].device_num)

\* no built-in fingerprint matches the card or the group
NoFingerprint(cards, groups) ==
    /\ FirstFingerprint(LAMBDA data :
           AudioFingerprintMatches(data, cards[1].card_name, cards[1].card_type)) = 0
    /\ FirstFingerprint(LAMBDA data : VideoFingerprintMatches(data, groups[1].key)) = 0

\* C3 as stated: on an enumeration of one group named A up to its first " (" and
\* one card whose name ends with "[A]", scan_devices() emits exactly one composite
\* device pairing the two, and neither of them standalone
C3_CompositePairing ==
    op = "scan_devices" =>
        Bind(<<Cards.val, Groups.val>>, LAMBDA h :
            OnePair(h[1], h[2]) => OneComposite(h[1], h[2]))

\* C3, amended: on such an enumeration scan_devices() emits exactly one composite
\* device pairing the two when no built-in fingerprint matches the card or the
\* group; when one does (as for the Playstation Eye's card and group) it emits
\* the group and the card as two standalone devices
C3_CompositeUnlessFingerprinted ==
    op = "scan_devices" =>
        Bind(<<Cards.val, Groups.val>>, LAMBDA h :
            OnePair(h[1], h[2]) =>
                IF NoFingerprint(h[1], h[2]) THEN OneComposite(h[1], h[2])
                ELSE TwoStandalone(h[1], h[2]))

\* scan_devices() paired the one card with the one group
C3_Witness ==
    /\ op = "scan_devices"
    /\ Bind(<<Cards.val, Groups.val>>, LAMBDA h :
          OnePair(h[1], h[2]) /\ NoFingerprint(h[1], h[2]) /\ OneComposite(h[1], h[2]))

\* an enumeration that failed, taken as empty
Degraded(listing) == IF listing.ok THEN listing ELSE Ok(<<>>)

\* C4: when the audio or the video enumeration fails, get_devices() still
\* returns, with what it returns when that enumeration is empty
C4_EnumerationFailureDegrades ==
    (op = "get_devices" /\ (~Cards.ok \/ ~Groups.ok)) =>
        /\ out.ok
        /\ out = Bind(<<Degraded(Cards), Degraded(Groups)>>, LAMBDA h :
                     get_devices(config, h[1], h[2]))

\* the result the claim gives a resolution over candidates scoring score[i] and
\* bound at address[i]: the best candidate's address, the first among equals,
\* when it scores at least the threshold, DeviceNotFound otherwise
Outcome(score, address) ==
    IF \E i \in 1..Len(score) : score[i] >= Threshold
    THEN Ok(address[CHOOSE i \in 1..Len(score) :
                       /\ \A j \in 1..Len(score) : score[j] <= score[i]
                       /\ \A j \in 1..(i - 1) : score[j] < score[i]])
    ELSE Raise("DeviceNotFound")

\* C5: resolving a non-empty query over any enumeration, the empty one included,
\* binds the address of the best candidate when it scores at least 0.75 and
\* fails with DeviceNotFound otherwise, with no other outcome
C5_ResolutionOutcome ==
    /\ (op = "AnalogAudio.set_device" /\ out.query # None) =>
           Bind(Cards.val, LAMBDA cards :
               out.result =
                   Outcome([i \in 1..Len(cards) |-> AudioScore(out.query, cards[i])],
                           [i \in 1..Len(cards) |->
                               set_device_index(cards[i].card_num, cards[i].device_num)]))
    /\ (op = "AnalogVideo.set_device" /\ out.query # None) =>
           Bind(Groups.val, LAMBDA groups :
               out.result =
                   Outcome([i \in 1..Len(groups) |->
                               10 * Max(partial_token_sort_ratio(out.query, groups[i].key),
                                        match_one("/dev/" \o out.query, groups[i].val).val)],
                           [i \in 1..Len(groups) |-> groups[i].val[1]]))

\* C6 as stated: a configured entry that fails to resolve is skipped and never
\* keeps get_devices() from returning, and the configured devices that resolve
\* are all in the collection, in configuration order, followed by the scan results
C6_PerEntryRecovery ==
    op = "get_devices" =>
        Bind(<<Loaded, Scanned>>, LAMBDA h :
            /\ h[2].ok => out.ok
            /\ out.ok =>
                  /\ Len(out.val) >= Len(h[1].val)
                  /\ SubSeq(out.val, 1, Len(h[1].val)) = h[1].val
                  /\ \A j \in (Len(h[1].val) + 1)..Len(out.val) : out.val[j].src = "scan")

\* the configured devices that resolved to a key no earlier one resolved to
FirstOfKey(loaded) ==
    {c \in 1..Len(loaded) : \A b \in 1..(c - 1) : Repr(loaded[b]) # Repr(loaded[c])}

\* the last configured device that resolved to the key of loaded[c]
LastOfKey(loaded, c) ==
    loaded[CHOOSE l \in 1..Len(loaded) :
              /\ Repr(loaded[l]) = Repr(loaded[c])
              /\ \A m \in (l + 1)..Len(loaded) : Repr(loaded[m]) # Repr(loaded[c])]

\* C6, amended: a configured entry that fails to resolve, with whatever
\* exception, is skipped; get_devices() raises exactly when the scan itself
\* raises, whatever the configuration holds; and when it returns, the configured
\* devices that resolve come first, one per identity key in the order the keys
\* first occur, each key holding the last configured device that resolved to
\* it, followed by the scan results
C6_RecoveryPerIdentity ==
    op = "get_devices" =>
        Bind(<<Loaded, Scanned>>, LAMBDA h :
            /\ out.ok <=> h[2].ok
            /\ out.ok =>
                  /\ Len(out.val) >= Cardinality(FirstOfKey(h[1].val))
                  /\ \A c \in FirstOfKey(h[1].val) :
                        out.val[Cardinality({b \in FirstOfKey(h[1].val) : b <= c})]
                            = LastOfKey(h[1].val, c)
                  /\ \A j \in (Cardinality(FirstOfKey(h[1].val)) + 1)..Len(out.val) :
                        out.val[j].src = "scan")

\* get_devices() returned a configured device although another configured entry,
\* naming an audio or a video device, failed to resolve
C6_Witness ==
    /\ op = "get_devices"
    /\ out.ok
    /\ \E i \in 1..Len(out.val) : out.val[i].src = "config"
    /\ \E e \in 1..Len(ConfiguredDevices(config)) :
          /\ DOMAIN ConfiguredDevices(config)[e].data
                 \cap {"audio_device", "video_device"} # {}
          /\ \A i \in 1..Len(Loaded.val) : Loaded.val[i].cfg # e

\* the permutations of 1..n
PermutationsOf(n) ==
    {p \in [1..n -> 1..n] : \A i, j \in 1..n : i # j => p[i] # p[j]}

\* the alias scan_devices gives the g-th group
AliasOf(groups, g) == VideoPlan(groups.val[g].key, <<>>).alias

\* what scan_devices() emitted for the g-th group: its class and its card address
ForGroup(devices, g) ==
    Bind(devices[CHOOSE i \in 1..Len(devices) : devices[i].rawGroup = g], LAMBDA d :
        <<d.cls, d.card>>)

\* C7: for every group G, permuting the enumeration order of the cards whose
\* names do not end with "[alias(G)]" changes neither whether scan_devices()
\* emits G as a composite or as a standalone device nor, when composite, the card
\* address it is paired with
C7_MergeOrderIndependence ==
    (op = "scan_devices" /\ out.ok) =>
        Bind(<<Cards.val, Groups>>, LAMBDA h :
            \A g \in 1..Len(h[2].val) :
                \A p \in PermutationsOf(Len(h[1])) :
                    (\A i \in 1..Len(h[1]) :
                        EndsWith(h[1][i].card_name, "[" \o AliasOf(h[2], g) \o "]")
                            => p[i] = i)
                    => Bind(scan_devices(Ok([i \in 1..Len(h[1]) |-> h[1][p[i]]]), h[2]),
                            LAMBDA permuted :
                           /\ permuted.ok
                           /\ ForGroup(permuted.val, g) = ForGroup(out.val, g)))

\* C8: get_device_json() holds exactly one entry per device get_devices()
\* returns, none shared or overwritten, with an audio field only for the devices
\* with an audio modality and a video field only for those with a video modality
C8_SummaryOneToOne ==
    (op = "get_device_json" /\ out.ok) =>
        Bind(Bind(<<Cards, Groups>>, LAMBDA h : get_devices(config, h[1], h[2])).val,
             LAMBDA devices :
            /\ Len(out.val) = Len(devices)
            /\ \A i \in 1..Len(devices) :
                  \E e \in 1..Len(out.val) :
                      /\ out.val[e].key = devices[i].name
                      /\ out.val[e].val.icon = devices[i].icon
                      /\ "audio" \in DOMAIN out.val[e].val
                             <=> devices[i].cls \in {"AnalogAudio", "AnalogVideoAudio"}
                      /\ "video" \in DOMAIN out.val[e].val
                             <=> devices[i].cls \in {"AnalogVideo", "AnalogVideoAudio"})

\* C9: scan_audio_devices() emits one device per raw card, the device of the
\* card (c, d) bound to hw:c,d, so that distinct cards have distinct identity keys
C9_ScanBindsEachCardToItself ==
    (op = "scan_audio_devices" /\ out.ok) =>
        Bind(Cards.val, LAMBDA cards :
            /\ Len(out.val) = Len(cards)
            /\ \A i \in 1..Len(cards) :
                  out.val[i].card
                      = set_device_index(cards[i].card_num, cards[i].device_num)
            /\ \A i, j \in 1..Len(cards) :
                  i # j => Repr(out.val[i]) # Repr(out.val[j]))

\* C10: once run() has ended and the last stop(), begun after run() began, has
\* returned, the binding is idle: stream and audio_player are cleared, no
\* subprocess is left running, running is false and nothing was raised
C10_StopLeavesIdle ==
    (/\ RunEnded
     /\ stopPc = "idle"
     /\ stopsLeft = 0
     /\ lastStop \in {"during run", "after run"}) =>
        /\ stream = 0
        /\ audio_player = 0
        /\ running = FALSE
        /\ \A p \in 1..Len(procs) : ~procs[p].alive
        /\ raised = {}

====
